---- MODULE Spec2Model ----
(***************************************************************************)
(* The recursive archive extractor (extract_archives) of ollama-mcp:       *)
(* executeArchiveExtractor, extractAllArchivesRecursively,                 *)
(* extractNestedArchivesRecursively, the suffix classifier, the single     *)
(* archive dispatcher and the per-format decoders, over a model of the     *)
(* file tree they read and change.                                         *)
(*                                                                         *)
(* A file name is the sequence of its dot-separated pieces ("a.tar.gz" is  *)
(* <<"a","tar","gz">>), a path is the sequence of its names from the file  *)
(* system root, and the disk maps every existing path to a node.  The      *)
(* content of a file is an identifier into a catalogue of byte images.     *)
(***************************************************************************)
EXTENDS Integers, Sequences, FiniteSets, TLC

\* ------------------------------------------------------------------ bounds
\* deepest chain of nested archives an input tree may hold
MaxNest == 12
\* number of files an input tree of several files may hold
MaxInitFiles == 2
\* deepest chain an input tree of several files may hold
MaxMixedNest == 3
\* number of consecutive calls of the tool on the same arguments
MaxRuns == 2

\* ------------------------------------------------------- program constants
maxIterations == 10

\* ----------------------------------------------------------------- helpers
\* F at e, with e evaluated once
Let(F(_), e) == CHOOSE v \in { F(x) : x \in { e } } : TRUE

Range(s) == { s[i] : i \in 1..Len(s) }

\* ------------------------------------------------------------------- names
\* Every piece of a name the model uses, in byte order ("." sorts below all
\* of them, so comparing names piece by piece is comparing the strings).
ChainTokens ==
    << "n01", "n02", "n03", "n04", "n05", "n06", "n07", "n08", "n09", "n10",
       "n11", "n12", "n13", "n14", "n15", "n16" >>

TokenOrder ==
    << "", "GZ", "GZ_extracted", "ZIP", "a", "b", "bz2", "bz2_extracted", "c",
       "d", "data1", "data2", "data3", "gz", "gz_extracted", "k", "level1",
       "level2", "level3", "n" >>
    \o ChainTokens \o
    << "out", "p", "q", "sba", "src", "sub", "t", "tar", "tar_extracted", "tbz2",
       "tgz", "tmp", "txt", "txz", "u", "x", "xz", "xz_extracted", "zip",
       "zip_extracted" >>

TokRank(t) == CHOOSE i \in 1..Len(TokenOrder) : TokenOrder[i] = t

RECURSIVE NameLess(_, _)
NameLess(a, b) ==
    IF a = <<>> THEN b # <<>>
    ELSE IF b = <<>> THEN FALSE
    ELSE IF a[1] = b[1] THEN NameLess(Tail(a), Tail(b))
    ELSE TokRank(a[1]) < TokRank(b[1])

\* strings.ToLower on one piece of a name
ToLower(t) ==
    CASE t = "GZ" -> "gz"
      [] t = "ZIP" -> "zip"
      [] OTHER -> t

\* the parent-directory name ".."
DotDot == << "", "", "" >>

\* ------------------------------------------------------------------- paths
Base(p) == p[Len(p)]
Dir(p) == IF p = <<>> THEN <<>> ELSE SubSeq(p, 1, Len(p) - 1)

\* filepath.Clean on an absolute path: ".." removes the element before it,
\* an empty element is dropped
RECURSIVE CleanFrom(_, _)
CleanFrom(done, rest) ==
    IF rest = <<>> THEN done
    ELSE IF rest[1] = DotDot THEN CleanFrom(Dir(done), Tail(rest))
    ELSE IF rest[1] = << "" >> THEN CleanFrom(done, Tail(rest))
    ELSE CleanFrom(Append(done, rest[1]), Tail(rest))

Join(dir, rel) == CleanFrom(<<>>, dir \o rel)

\* filepath.Rel(base, target) for a target at or below base
Rel(base, target) == SubSeq(target, Len(base) + 1, Len(target))

IsPrefix(a, b) == Len(a) <= Len(b) /\ SubSeq(b, 1, Len(a)) = a

\* filepath.Ext of the last element, lower-cased: <<>> is "", <<"gz">> is ".gz"
Ext(name) == IF Len(name) >= 2 THEN << ToLower(name[Len(name)]) >> ELSE <<>>

\* strings.TrimSuffix(name, ext): case-sensitive, ext as Ext returns it
TrimSuffix(name, ext) ==
    IF ext # <<>> /\ Len(name) >= 2 /\ name[Len(name)] = ext[1]
    THEN SubSeq(name, 1, Len(name) - 1)
    ELSE name

DoubleExt(name) == Ext(TrimSuffix(name, Ext(name)))

\* ---------------------------------------------------------------- contents
Text == [k |-> "text", d |-> 0]
Trunc == [k |-> "trunc", d |-> 0]
NoContent == [k |-> "dir", d |-> 0]
\* a chain of d nested zip archives, every level under its own name: in
\* family "inner-first" an archive's name sorts after the name of the archive
\* it holds, in family "outer-first" before it
ChainFamilies == { "inner-first", "outer-first" }
Chain(k, d) == [k |-> k, d |-> d]
Lvl(d) == [k |-> "lvl", d |-> d]
Pack == [k |-> "pack", d |-> 0]
Clash == [k |-> "clash", d |-> 0]
XzFile == [k |-> "xzfile", d |-> 0]
\* a zip whose entry names are "../u.txt" and "/t.txt"
Slip == [k |-> "slip", d |-> 0]
\* a zip whose first entry carries the archive's own name, b.zip
SelfZip == [k |-> "selfzip", d |-> 0]
\* a gzip stream of a text file: one that gzip.NewReader's buffer takes in
\* whole with its first read, and one longer than that buffer
GzSmall == [k |-> "gz", d |-> 0]
GzLarge == [k |-> "gz", d |-> 1]
\* an xz-compressed tar container of one text file
TarXz == [k |-> "tarxz", d |-> 0]
\* a zip with an entry "../../../src/n.txt" and an entry "t.txt"
Slip3 == [k |-> "slip3", d |-> 0]
\* a gzip-compressed tar container of two text files
TarGz == [k |-> "targz", d |-> 0]
\* a zip, b.zip, that holds a zip of two text files under its own name
SameName == [k |-> "samename", d |-> 0]
\* a zip that holds a copy of itself, as sub/q.zip
Quine == [k |-> "quine", d |-> 0]

\* the name of the archive that holds d levels of a chain
ChainName(k, d) ==
    IF k = "inner-first" THEN << ChainTokens[d], "zip" >>
    ELSE << ChainTokens[Len(ChainTokens) + 1 - d], "zip" >>

FileEntry(rel, c) == [name |-> rel, isDir |-> FALSE, c |-> c, bad |-> FALSE]
DirEntry(rel) == [name |-> rel, isDir |-> TRUE, c |-> NoContent, bad |-> FALSE]

\* The byte image behind a content identifier: its real format and, for a
\* container, its entries in stored order (for a single-file compressor the
\* one payload).
Image(c) ==
    CASE c.k \in ChainFamilies /\ c.d = 1 ->
            [fmt |-> "zip",
             entries |-> << FileEntry(<< <<"t", "txt">> >>, Text),
                            FileEntry(<< <<"u", "txt">> >>, Text) >>]
      [] c.k \in ChainFamilies /\ c.d > 1 ->
            [fmt |-> "zip",
             entries |-> << FileEntry(<< ChainName(c.k, c.d - 1) >>,
                                      Chain(c.k, c.d - 1)) >>]
      [] c.k = "lvl" /\ c.d = 1 ->
            [fmt |-> "zip",
             entries |-> << FileEntry(<< <<"level1", "txt">> >>, Text),
                            FileEntry(<< <<"data1", "txt">> >>, Text),
                            FileEntry(<< <<"level2">>, <<"level2", "zip">> >>, Lvl(2)) >>]
      [] c.k = "lvl" /\ c.d = 2 ->
            [fmt |-> "zip",
             entries |-> << FileEntry(<< <<"level2", "txt">> >>, Text),
                            FileEntry(<< <<"data2", "txt">> >>, Text),
                            FileEntry(<< <<"level3">>, <<"level3", "zip">> >>, Lvl(3)) >>]
      [] c.k = "lvl" /\ c.d = 3 ->
            [fmt |-> "zip",
             entries |-> << FileEntry(<< <<"level3", "txt">> >>, Text),
                            FileEntry(<< <<"data3", "txt">> >>, Text) >>]
      [] c.k = "pack" ->
            [fmt |-> "zip",
             entries |-> << FileEntry(<< <<"sub">>, <<"k", "zip">> >>,
                                      Chain("inner-first", 1)) >>]
      [] c.k = "clash" ->
            [fmt |-> "zip",
             entries |-> << FileEntry(<< <<"sub">> >>, Text),
                            FileEntry(<< <<"d", "txt">> >>, Text) >>]
      [] c.k = "xzfile" ->
            [fmt |-> "xz", entries |-> << FileEntry(<<>>, Text) >>]
      [] c.k = "slip" ->
            [fmt |-> "zip",
             entries |-> << FileEntry(<< DotDot, <<"u", "txt">> >>, Text),
                            FileEntry(<< <<"">>, <<"t", "txt">> >>, Text) >>]
      [] c.k = "selfzip" ->
            [fmt |-> "zip",
             entries |-> << FileEntry(<< <<"b", "zip">> >>, Text),
                            FileEntry(<< <<"t", "txt">> >>, Text) >>]
      [] c.k = "gz" ->
            [fmt |-> "gz", entries |-> << FileEntry(<<>>, Text) >>]
      [] c.k = "tarxz" ->
            [fmt |-> "tarxz",
             entries |-> << FileEntry(<< <<"t", "txt">> >>, Text) >>]
      [] c.k = "slip3" ->
            [fmt |-> "zip",
             entries |-> << FileEntry(<< DotDot, DotDot, DotDot, <<"src">>,
                                         <<"n", "txt">> >>, Text),
                            FileEntry(<< <<"t", "txt">> >>, Text) >>]
      [] c.k = "targz" ->
            [fmt |-> "targz",
             entries |-> << FileEntry(<< <<"t", "txt">> >>, Text),
                            FileEntry(<< <<"u", "txt">> >>, Text) >>]
      [] c.k = "samename" ->
            [fmt |-> "zip",
             entries |-> << FileEntry(<< <<"b", "zip">> >>,
                                      Chain("inner-first", 1)) >>]
      [] c.k = "quine" ->
            [fmt |-> "zip",
             entries |-> << FileEntry(<< <<"sub">>, <<"q", "zip">> >>, Quine) >>]
      [] OTHER -> [fmt |-> "none", entries |-> <<>>]

\* --------------------------------------------------------------- the disk
DirNode == [isDir |-> TRUE, c |-> NoContent]
FileNode(c) == [isDir |-> FALSE, c |-> c]

Exists(d, p) == p \in DOMAIN d
IsDirAt(d, p) == p \in DOMAIN d /\ d[p].isDir
IsFileAt(d, p) == p \in DOMAIN d /\ ~d[p].isDir

Put(d, p, node) == [q \in DOMAIN d \cup {p} |-> IF q = p THEN node ELSE d[q]]
Remove(d, p) == [q \in DOMAIN d \ {p} |-> d[q]]

\* os.MkdirAll: every missing directory of the path is made; a file in the
\* way is an error (the directories made before it stay)
RECURSIVE MkdirAll(_, _)
MkdirAll(d, p) ==
    IF p \in DOMAIN d THEN [ok |-> d[p].isDir, disk |-> d]
    ELSE Let(LAMBDA r : IF r.ok
                        THEN [ok |-> TRUE, disk |-> Put(r.disk, p, DirNode)]
                        ELSE r,
             MkdirAll(d, Dir(p)))

\* the names in a directory, sorted as filepath.Walk reads them
RECURSIVE SortNames(_)
SortNames(S) ==
    IF S = {} THEN <<>>
    ELSE Let(LAMBDA m : << m >> \o SortNames(S \ { m }),
             CHOOSE x \in S : \A y \in S \ { x } : NameLess(x, y))

ReadDirNames(d, dir) ==
    SortNames({ Base(p) : p \in { q \in DOMAIN d : q # <<>> /\ Dir(q) = dir } })

\* -------------------------------------------------------------- classifier
SingleSuffixes ==
    { <<"zip">>, <<"tar">>, <<"gz">>, <<"tgz">>, <<"bz2">>, <<"tbz2">>,
      <<"xz">>, <<"txz">> }
DoubleSuffixes == { <<"tar", "gz">>, <<"tar", "bz2">>, <<"tar", "xz">> }

isCompressedFile(filePath) ==
    LET name == Base(filePath)
    IN  \/ Ext(name) \in SingleSuffixes
        \/ DoubleExt(name) \o Ext(name) \in DoubleSuffixes

\* ---------------------------------------------------------------- decoders
\* A decoder returns the disk it leaves, the paths it reports as extracted
\* and the errors it reports.
Err(kind, p) == [kind |-> kind, path |-> p]
Outcome(d, files, errors) == [disk |-> d, files |-> files, errors |-> errors]

\* an entry written with every non-directory path listed, created or not
WriteEntryAtListAll(acc, archivePath, filePath, e, inMemory, mk) ==
    LET self == filePath = archivePath /\ ~inMemory
    IN  IF e.isDir
        THEN [acc EXCEPT !.disk = mk.disk,
                         !.errors = IF mk.ok THEN @
                                    ELSE Append(@, Err("CreateDirectory", filePath))]
        ELSE IF ~mk.ok \/ acc.cut \/ IsDirAt(mk.disk, filePath)
        THEN [acc EXCEPT !.disk = mk.disk,
                         !.errors = Append(@, Err("CreateFile", filePath)),
                         !.files = Append(@, filePath)]
        ELSE [acc EXCEPT !.disk = Put(mk.disk, filePath,
                                      FileNode(IF e.bad \/ self THEN Trunc ELSE e.c)),
                         !.files = Append(@, filePath),
                         !.cut = @ \/ self]

\* One entry of a container, as both container decoders write it.  acc.cut
\* says the archive file itself has been truncated by an earlier os.Create.
WriteEntryAt(acc, archivePath, filePath, e, inMemory, mk) ==
    LET self == filePath = archivePath /\ ~inMemory
    IN  IF e.isDir
        THEN [acc EXCEPT !.disk = mk.disk,
                         !.errors = IF mk.ok THEN @
                                    ELSE Append(@, Err("CreateDirectory", filePath))]
        ELSE IF ~mk.ok
        THEN [acc EXCEPT !.disk = mk.disk,
                         !.errors = Append(@, Err("CreateDirectoryFor", filePath))]
        ELSE IF acc.cut
        THEN [acc EXCEPT !.disk = mk.disk,
                         !.errors = Append(@, Err("OpenEntry", filePath))]
        ELSE IF IsDirAt(mk.disk, filePath)
        THEN [acc EXCEPT !.disk = mk.disk,
                         !.errors = Append(@, Err("CreateFile", filePath))]
        ELSE IF e.bad \/ self
        THEN [acc EXCEPT !.disk = Put(mk.disk, filePath, FileNode(Trunc)),
                         !.errors = Append(@, Err("ExtractFile", filePath)),
                         !.cut = @ \/ self]
        ELSE [acc EXCEPT !.disk = Put(mk.disk, filePath, FileNode(e.c)),
                         !.files = Append(@, filePath)]

WriteEntry(acc, archivePath, targetDir, e, inMemory) ==
    Let(LAMBDA filePath :
            Let(LAMBDA mk : WriteEntryAt(acc, archivePath, filePath, e,
                                         inMemory, mk),
                MkdirAll(acc.disk, IF e.isDir THEN filePath ELSE Dir(filePath))),
        Join(targetDir, e.name))

RECURSIVE ZipEntries(_, _, _, _)
ZipEntries(acc, archivePath, targetDir, entries) ==
    IF entries = <<>> THEN acc
    ELSE Let(LAMBDA a : ZipEntries(a, archivePath, targetDir, Tail(entries)),
             WriteEntry(acc, archivePath, targetDir, entries[1], FALSE))

extractZipArchiveFile(d, archivePath, targetDir) ==
    LET img == Image(d[archivePath].c)
    IN  IF img.fmt # "zip"
        THEN Outcome(d, <<>>, << Err("OpenZip", archivePath) >>)
        ELSE Let(LAMBDA r : Outcome(r.disk, r.files, r.errors),
                 Let(LAMBDA a : ZipEntries(a, archivePath, targetDir, img.entries),
                     [disk |-> d, files |-> <<>>, errors |-> <<>>,
                      cut |-> FALSE]))

\* the tar loop: a read of the next header fails once the archive is cut
RECURSIVE TarEntries(_, _, _, _, _)
TarEntries(acc, archivePath, targetDir, entries, inMemory) ==
    IF acc.cut THEN [acc EXCEPT !.errors = Append(@, Err("TarHeader", archivePath))]
    ELSE IF entries = <<>> THEN acc
    ELSE Let(LAMBDA a : TarEntries(a, archivePath, targetDir, Tail(entries),
                                   inMemory),
             WriteEntry(acc, archivePath, targetDir, entries[1], inMemory))

\* the compression the tar decoder unwraps, from doubleExt+ext
TarWrapper(name) ==
    LET sfx == DoubleExt(name) \o Ext(name)
    IN  CASE sfx \in { <<"tar", "gz">>, <<"tgz">> } -> "gz"
          [] sfx \in { <<"tar", "bz2">>, <<"tbz2">> } -> "bz2"
          [] sfx \in { <<"tar", "xz">>, <<"txz">> } -> "xz"
          [] OTHER -> "none"

extractTarArchiveFile(d, xz, archivePath, targetDir) ==
    LET img == Image(d[archivePath].c)
        w == TarWrapper(Base(archivePath))
        isTar == \/ w = "none" /\ img.fmt = "tar"
                 \/ w = "gz" /\ img.fmt = "targz"
                 \/ w = "bz2" /\ img.fmt = "tarbz2"
                 \/ w = "xz" /\ img.fmt = "tarxz"
    IN  IF w = "gz" /\ img.fmt \notin { "gz", "targz" }
        THEN Outcome(d, <<>>, << Err("GzipReader", archivePath) >>)
        ELSE IF w = "xz" /\ ~(xz /\ img.fmt \in { "xz", "tarxz" })
        THEN Outcome(d, <<>>, << Err("DecompressXz", archivePath) >>)
        ELSE IF ~isTar
        THEN Outcome(d, <<>>, << Err("TarHeader", archivePath) >>)
        ELSE Let(LAMBDA r : Outcome(r.disk, r.files, r.errors),
                 Let(LAMBDA a : TarEntries(a, archivePath, targetDir,
                                           img.entries, w = "xz"),
                     [disk |-> d, files |-> <<>>, errors |-> <<>>,
                      cut |-> FALSE]))

\* the output of a single-file compressor: the base name less the suffix
OutputPath(archivePath, targetDir, suffix) ==
    Join(targetDir, << TrimSuffix(Base(archivePath), << suffix >>) >>)

extractGzipArchiveFile(d, archivePath, targetDir) ==
    LET img == Image(d[archivePath].c)
        outputPath == OutputPath(archivePath, targetDir, "gz")
    IN  IF img.fmt \notin { "gz", "targz" }
        THEN Outcome(d, <<>>, << Err("GzipReader", archivePath) >>)
        ELSE IF IsDirAt(d, outputPath) \/ ~IsDirAt(d, Dir(outputPath))
        THEN Outcome(d, <<>>, << Err("CreateOutput", outputPath) >>)
        ELSE IF (outputPath = archivePath /\ d[archivePath].c # GzSmall)
                  \/ img.entries[1].bad
        THEN Outcome(Put(d, outputPath, FileNode(Trunc)), <<>>,
                     << Err("ExtractGzip", archivePath) >>)
        ELSE Outcome(Put(d, outputPath, FileNode(img.entries[1].c)),
                     << outputPath >>, <<>>)

extractBzip2ArchiveFile(d, archivePath, targetDir) ==
    LET img == Image(d[archivePath].c)
        outputPath == OutputPath(archivePath, targetDir, "bz2")
    IN  IF IsDirAt(d, outputPath) \/ ~IsDirAt(d, Dir(outputPath))
        THEN Outcome(d, <<>>, << Err("CreateOutput", outputPath) >>)
        ELSE IF img.fmt \notin { "bz2", "tarbz2" } \/ outputPath = archivePath
        THEN Outcome(Put(d, outputPath, FileNode(Trunc)), <<>>,
                     << Err("ExtractBzip2", archivePath) >>)
        ELSE IF img.entries[1].bad
        THEN Outcome(Put(d, outputPath, FileNode(Trunc)), <<>>,
                     << Err("ExtractBzip2", archivePath) >>)
        ELSE Outcome(Put(d, outputPath, FileNode(img.entries[1].c)),
                     << outputPath >>, <<>>)

\* the xz decoder with the failure of the command ignored: the empty output
\* is written and listed
extractXzArchiveFileUnchecked(d, xz, archivePath, targetDir) ==
    LET outputPath == OutputPath(archivePath, targetDir, "xz")
    IN  IF IsDirAt(d, outputPath) \/ ~IsDirAt(d, Dir(outputPath))
        THEN Outcome(d, <<>>, << Err("CreateOutput", outputPath) >>)
        ELSE Outcome(Put(d, outputPath, FileNode(Trunc)), << outputPath >>, <<>>)

extractXzArchiveFile(d, xz, archivePath, targetDir) ==
    LET img == Image(d[archivePath].c)
        outputPath == OutputPath(archivePath, targetDir, "xz")
    IN  IF ~(xz /\ img.fmt \in { "xz", "tarxz" })
        THEN Outcome(d, <<>>, << Err("DecompressXz", archivePath) >>)
        ELSE IF IsDirAt(d, outputPath) \/ ~IsDirAt(d, Dir(outputPath))
        THEN Outcome(d, <<>>, << Err("CreateOutput", outputPath) >>)
        ELSE Outcome(Put(d, outputPath, FileNode(img.entries[1].c)),
                     << outputPath >>, <<>>)

\* the single-archive dispatcher
extractArchiveFile(d, xz, archivePath, targetDir) ==
    LET name == Base(archivePath)
        ext == Ext(name)
        doubleExt == DoubleExt(name)
    IN  IF ext = <<"zip">>
        THEN extractZipArchiveFile(d, archivePath, targetDir)
        ELSE IF ext = <<"tar">> \/ doubleExt \o ext \in DoubleSuffixes
        THEN extractTarArchiveFile(d, xz, archivePath, targetDir)
        ELSE IF ext = <<"gz">> /\ doubleExt # <<"tar">>
        THEN extractGzipArchiveFile(d, archivePath, targetDir)
        ELSE IF ext = <<"bz2">> /\ doubleExt # <<"tar">>
        THEN extractBzip2ArchiveFile(d, archivePath, targetDir)
        ELSE IF ext = <<"xz">> /\ doubleExt # <<"tar">>
        THEN extractXzArchiveFile(d, xz, archivePath, targetDir)
        ELSE Outcome(d, <<>>, << Err("Unsupported", archivePath) >>)

\* ------------------------------------------------------------------- state
VARIABLES
    disk,            \* the file tree: path -> node
    request,         \* source_path, output_dir ("" is <<>>), recursive
    xzTool,          \* whether the host resolves a working xz executable
    pc,              \* where the call stands
    run,             \* calls started so far
    outputDir,       \* output_dir after defaulting
    stack,           \* filepath.Walk: the directories entered, names pending
    extractedFiles,  \* extractAllArchivesRecursively's extractedFiles
    errors,          \* extractAllArchivesRecursively's errors
    iteration,       \* the fixpoint loop's counter
    archivesFound,   \* the current round's flag
    roundFiles,      \* the current round's extractedFiles
    roundErrors,     \* the current round's errors
    allExtractedFiles,
    allErrors,
    result,          \* what the call returned
    decodeLog,       \* history: every decoder call of this call, in order
    fresh,           \* history: the paths written by decoders in this call
    handed,          \* history: archives decoded and not rewritten since
    disk0,           \* history: the file tree when this call began
    returned         \* history: the results of the calls that have returned

\* the support-bundle analysis (analyze_support_bundle)
VARIABLES
    bpc,             \* where the analysis stands
    extractArchives, \* the extract_archives argument
    cancelled,       \* whether ctx.Done() is closed
    calls,           \* the nested calls of extractAllCompressedFiles
    searchPath,      \* index of the search path being walked
    searchStack,     \* the walk of the second pass
    analysis,        \* the files searched, with a match each, in order
    bresult,         \* what executeSupportBundleAnalyze returned
    bundleLog,       \* history: the archives handed to extractArchive
    lateWork         \* history: files decoded or searched after the signal

bvars ==
    << bpc, extractArchives, cancelled, calls, searchPath, searchStack,
       analysis, bresult, bundleLog, lateWork >>

\* the extractor's variables but the file tree and the xz tool
evars ==
    << request, pc, run, outputDir, stack, extractedFiles, errors, iteration,
       archivesFound, roundFiles, roundErrors, allExtractedFiles, allErrors,
       result, decodeLog, fresh, handed, returned >>

vars ==
    << disk, request, xzTool, pc, run, outputDir, stack, extractedFiles,
       errors, iteration, archivesFound, roundFiles, roundErrors,
       allExtractedFiles, allErrors, result, decodeLog, fresh, handed, disk0,
       returned, bvars >>

Src == << <<"src">> >>
Out == << <<"out">> >>
Missing == << <<"n">> >>
\* an output_dir whose path is taken by a regular file of the source tree
Blocked == Src \o << <<"n", "txt">> >>

\* ------------------------------------------------------------- input trees
ChainFile(k, d) == [rel |-> << ChainName(k, d) >>, c |-> Chain(k, d)]

FileChoices ==
    { ChainFile(k, d) : k \in ChainFamilies, d \in 1..MaxMixedNest }
    \cup
    { [rel |-> << <<"c", "zip">> >>, c |-> Text],
      [rel |-> << <<"level1", "zip">> >>, c |-> Lvl(1)],
      [rel |-> << <<"p", "zip">> >>, c |-> Pack],
      [rel |-> << <<"d", "zip">> >>, c |-> Clash],
      [rel |-> << <<"x", "xz">> >>, c |-> XzFile],
      [rel |-> << <<"x", "xz">> >>, c |-> Text],
      [rel |-> << <<"k", "tar", "xz">> >>, c |-> TarXz],
      [rel |-> << <<"a", "zip">> >>, c |-> Slip],
      [rel |-> << <<"b", "zip">> >>, c |-> SelfZip],
      [rel |-> << <<"b", "GZ">> >>, c |-> GzSmall],
      [rel |-> << <<"b", "GZ">> >>, c |-> GzLarge],
      [rel |-> << <<"k", "tar", "gz">> >>, c |-> TarGz],
      [rel |-> << <<"t", "tgz">> >>, c |-> TarGz],
      [rel |-> << <<"n", "txt">> >>, c |-> Text],
      [rel |-> << <<"sub">>, <<"n", "txt">> >>, c |-> Text],
      [rel |-> << <<"sub">>, <<"b", "zip">> >>, c |-> Chain("inner-first", 1)] }

RECURSIVE TreesUpTo(_)
TreesUpTo(n) ==
    IF n = 0 THEN { {} }
    ELSE LET S == TreesUpTo(n - 1)
         IN  S \cup { T \cup { f } : T \in S,
                       f \in { g \in FileChoices : TRUE } }

\* the input trees: a few files of the catalogue, or one chain of any depth
Trees ==
    { T \in TreesUpTo(MaxInitFiles) : \A f, g \in T : f.rel = g.rel => f = g }
    \cup { { ChainFile(k, d) } : k \in ChainFamilies, d \in 1..MaxNest }

RECURSIVE Plant(_, _)
Plant(d, T) ==
    IF T = {} THEN d
    ELSE Let(LAMBDA f :
                 Let(LAMBDA d1 : Plant(d1, T \ { f }),
                     Put(MkdirAll(d, Dir(Src \o f.rel)).disk, Src \o f.rel,
                         FileNode(f.c))),
             CHOOSE f \in T : TRUE)

EmptyDisk == [p \in { <<>> } |-> DirNode]
NoResult == [kind |-> "none", extracted_files |-> <<>>, total_files |-> 0,
             errors |-> <<>>, message |-> "none"]

\* no call of the extractor has been made
ExtractorAtRest ==
    /\ run = 0
    /\ outputDir = <<>>
    /\ stack = <<>>
    /\ extractedFiles = <<>>
    /\ errors = <<>>
    /\ iteration = 0
    /\ archivesFound = FALSE
    /\ roundFiles = <<>>
    /\ roundErrors = <<>>
    /\ allExtractedFiles = <<>>
    /\ allErrors = <<>>
    /\ result = NoResult
    /\ decodeLog = <<>>
    /\ fresh = {}
    /\ handed = {}
    /\ returned = <<>>

\* no analysis has been started
BundleAtRest ==
    /\ cancelled = FALSE
    /\ calls = <<>>
    /\ searchPath = 0
    /\ searchStack = <<>>
    /\ analysis = <<>>
    /\ bresult = [kind |-> "none", files |-> <<>>]
    /\ bundleLog = <<>>
    /\ lateWork = 0

Init ==
    /\ \E T \in Trees, sp \in { Src, Missing, <<>> },
          od \in { <<>>, Out, Blocked }, rec \in BOOLEAN, xz \in BOOLEAN :
         /\ sp # Src => T = {} /\ od = <<>> /\ rec
         /\ od = Blocked => \E f \in T : Src \o f.rel = Blocked
         /\ ~xz => \E f \in T : Ext(Base(f.rel)) = <<"xz">>
         /\ disk = Let(LAMBDA d : Plant(d, T), MkdirAll(EmptyDisk, Src).disk)
         /\ request = [source_path |-> sp, output_dir |-> od, recursive |-> rec]
         /\ xzTool = xz
    /\ pc = "idle"
    /\ ExtractorAtRest
    /\ disk0 = disk
    /\ bpc = "off"
    /\ extractArchives = TRUE
    /\ BundleAtRest

\* ------------------------------------------------------------ filepath.Walk
\* The walk is depth first.  The names of a directory are read, sorted, when
\* the directory is entered; each is looked up again when its turn comes.
StartWalk(root) == << [dir |-> Dir(root), names |-> << Base(root) >>] >>

RECURSIVE Unwind(_)
Unwind(st) ==
    IF st # <<>> /\ st[Len(st)].names = <<>>
    THEN Unwind(SubSeq(st, 1, Len(st) - 1))
    ELSE st

NextPath(st) == st[Len(st)].dir \o << st[Len(st)].names[1] >>
Advance(st) == [st EXCEPT ![Len(st)].names = Tail(@)]
Enter(d, st, path) ==
    Unwind(Append(Advance(st), [dir |-> path, names |-> ReadDirNames(d, path)]))

\* ----------------------------------------------------------------- history
Written(d1, d2, files) ==
    { p \in DOMAIN d2 : ~d2[p].isDir /\ (p \notin DOMAIN d1 \/ d1[p] # d2[p]) }
    \cup Range(files)

\* whether the archive at path is the same file after a decode as before
Intact(d1, d2, path) == IsFileAt(d2, path) /\ d2[path] = d1[path]

Logged(path, round, d1, out, removed, intact) ==
    Append(decodeLog,
           [path |-> path, round |-> round, c |-> d1[path].c,
            nerr |-> Len(out.errors), files |-> out.files,
            again |-> path \in handed, fresh |-> path \in fresh,
            removed |-> removed, intact |-> intact])

\* ---------------------------------------------------------------- the call
BudgetError == Err("MaxIterations", <<>>)

\* the report with total_files counting the distinct paths
ReportCountingDistinct(files, errs) ==
    [kind |-> "report", extracted_files |-> files,
     total_files |-> Cardinality(Range(files)), errors |-> errs,
     message |-> IF Len(errs) > 0 THEN "completed with errors" ELSE "success"]

\* ArchiveExtractionResult as executeArchiveExtractor fills it
Report(files, errs) ==
    [kind |-> "report", extracted_files |-> files, total_files |-> Len(files),
     errors |-> errs,
     message |-> IF Len(errs) > 0 THEN "completed with errors" ELSE "success"]

ErrorResult(msg) ==
    [kind |-> "error", extracted_files |-> <<>>, total_files |-> 0,
     errors |-> <<>>, message |-> msg]

\* an error result only for a missing source_path
CallFailsOnSourceOnly(d, sourcePath, mk) ==
    sourcePath = <<>> \/ ~Exists(d, sourcePath)

\* the early returns of executeArchiveExtractor: an empty source_path, a
\* source_path that does not exist, an output directory that cannot be made
CallFails(d, sourcePath, mk) ==
    sourcePath = <<>> \/ ~Exists(d, sourcePath) \/ ~mk.ok

\* executeArchiveExtractor up to the first pass's walk
Call ==
    /\ UNCHANGED bvars
    /\ pc = "idle" \/ (pc = "done" /\ run < MaxRuns)
    /\ run' = run + 1
    /\ \E sourcePath \in { request.source_path } :
       \E dir \in { IF request.output_dir = <<>> THEN sourcePath
                     ELSE request.output_dir } :
       \E mk \in { MkdirAll(disk, dir) } :
       LET failed == CallFails(disk, sourcePath, mk)
           msg == IF sourcePath = <<>> THEN "source_path is required"
                  ELSE IF ~Exists(disk, sourcePath)
                  THEN "source path does not exist"
                  ELSE "Failed to create output directory"
       IN  /\ outputDir' = dir
           /\ disk' = IF sourcePath = <<>> \/ ~Exists(disk, sourcePath)
                      THEN disk ELSE mk.disk
           /\ pc' = IF failed THEN "failed" ELSE "first"
           /\ result' = IF failed THEN ErrorResult(msg) ELSE NoResult
           /\ stack' = IF failed THEN <<>> ELSE StartWalk(sourcePath)
    /\ extractedFiles' = <<>>
    /\ errors' = <<>>
    /\ iteration' = 0
    /\ archivesFound' = FALSE
    /\ roundFiles' = <<>>
    /\ roundErrors' = <<>>
    /\ allExtractedFiles' = <<>>
    /\ allErrors' = <<>>
    /\ decodeLog' = <<>>
    /\ fresh' = {}
    /\ handed' = {}
    /\ disk0' = disk
    /\ UNCHANGED << request, xzTool, returned >>

\* a decode's files put in front of the list
PrependFiles(list, files) == files \o list

\* extractedFiles = append(extractedFiles, files...)
AppendFiles(list, files) == list \o files

\* the first pass's callback on an archive: decode into the mirrored directory
FirstPassExtract(d, xz, sourcePath, outDir, path) ==
    LET targetDir == Join(outDir, Dir(Rel(sourcePath, path)))
    IN  Let(LAMBDA mk :
                IF ~mk.ok
                THEN [decoded |-> FALSE,
                      out |-> Outcome(mk.disk, <<>>,
                                      << Err("CreateTarget", targetDir) >>)]
                ELSE [decoded |-> TRUE,
                      out |-> extractArchiveFile(mk.disk, xz, path, targetDir)],
            MkdirAll(d, targetDir))

\* one entry of the first pass's walk
FirstPassVisit ==
    /\ UNCHANGED bvars
    /\ pc = "first"
    /\ stack # <<>>
    /\ LET path == NextPath(stack)
       IN  IF ~Exists(disk, path)
           THEN /\ errors' = Append(errors, Err("Access", path))
                /\ stack' = Unwind(Advance(stack))
                /\ UNCHANGED << disk, extractedFiles, decodeLog, fresh, handed >>
           ELSE IF IsDirAt(disk, path)
           THEN /\ stack' = Enter(disk, stack, path)
                /\ UNCHANGED << disk, extractedFiles, errors, decodeLog, fresh,
                                handed >>
           ELSE IF ~isCompressedFile(path)
           THEN /\ stack' = Unwind(Advance(stack))
                /\ UNCHANGED << disk, extractedFiles, errors, decodeLog, fresh,
                                handed >>
           ELSE \E r \in { FirstPassExtract(disk, xzTool, request.source_path,
                                              outputDir, path) } :
                \E w \in { Written(disk, r.out.disk, r.out.files) } :
                    /\ disk' = r.out.disk
                    /\ extractedFiles' = AppendFiles(extractedFiles, r.out.files)
                    /\ errors' = errors \o r.out.errors
                    /\ stack' = Unwind(Advance(stack))
                    /\ decodeLog' = IF r.decoded
                                    THEN Logged(path, 0, disk, r.out, FALSE,
                                                Intact(disk, r.out.disk, path))
                                    ELSE decodeLog
                    /\ fresh' = fresh \cup w
                    /\ handed' = IF r.decoded THEN (handed \ w) \cup { path }
                                 ELSE handed
    /\ UNCHANGED << request, xzTool, pc, run, outputDir, iteration,
                    archivesFound, roundFiles, roundErrors, allExtractedFiles,
                    allErrors, result, disk0, returned >>

\* a loop without a budget
LoopGuardUnbounded(i) == TRUE

\* the loop condition, letting one round too many through
LoopGuardOffByOne(i) == i <= maxIterations

\* the loop condition of the fixpoint loop
LoopGuard(i) == i < maxIterations

\* the diagnostic, appended only past the budget
BudgetDiagnosticLate(i) == IF i > maxIterations THEN << BudgetError >> ELSE <<>>

\* the diagnostic appended after the loop
BudgetDiagnostic(i) == IF i >= maxIterations THEN << BudgetError >> ELSE <<>>

\* the walk of the first pass is over: return, or enter the fixpoint loop
FirstPassDone ==
    /\ UNCHANGED bvars
    /\ pc = "first"
    /\ stack = <<>>
    /\ IF request.recursive
       THEN /\ pc' = "loop"
            /\ UNCHANGED << result, returned >>
       ELSE /\ pc' = "done"
            /\ result' = Report(extractedFiles, errors)
            /\ returned' = Append(returned, result')
    /\ UNCHANGED << disk, request, xzTool, run, outputDir, stack,
                    extractedFiles, errors, iteration, archivesFound,
                    roundFiles, roundErrors, allExtractedFiles, allErrors,
                    decodeLog, fresh, handed, disk0 >>

\* the loop head: one more round
RoundStart ==
    /\ UNCHANGED bvars
    /\ pc = "loop"
    /\ LoopGuard(iteration)
    /\ iteration' = iteration + 1
    /\ roundFiles' = <<>>
    /\ roundErrors' = <<>>
    /\ archivesFound' = FALSE
    /\ stack' = StartWalk(outputDir)
    /\ pc' = "round"
    /\ UNCHANGED << disk, request, xzTool, run, outputDir, extractedFiles,
                    errors, allExtractedFiles, allErrors, result, decodeLog,
                    fresh, handed, disk0, returned >>

\* whether the round removes the archive it has just decoded: os.Remove
\* follows the decode whatever the decode reported
RemoveAfter(extractErrors) == TRUE

\* a round's callback on an archive: decode in place, then remove it
RoundExtract(d, xz, path) ==
    Let(LAMBDA out :
            IF RemoveAfter(out.errors)
            THEN [removed |-> TRUE, intact |-> Intact(d, out.disk, path),
                  out |-> Outcome(Remove(out.disk, path), out.files, out.errors)]
            ELSE [removed |-> FALSE, intact |-> Intact(d, out.disk, path),
                  out |-> out],
        extractArchiveFile(d, xz, path, Dir(path)))

\* the walk ended by the first decode that reports an error
WalkEndsOnError(st, extractErrors) ==
    IF extractErrors # <<>> THEN <<>> ELSE Unwind(Advance(st))

\* where a round's walk stands after its callback on an archive: the
\* callback returns nil whatever the decode and the removal reported
WalkOn(st, extractErrors) == Unwind(Advance(st))

\* one entry of a round's walk
RoundVisit ==
    /\ UNCHANGED bvars
    /\ pc = "round"
    /\ stack # <<>>
    /\ LET path == NextPath(stack)
       IN  IF ~Exists(disk, path)
           THEN /\ roundErrors' = Append(roundErrors, Err("Access", path))
                /\ stack' = Unwind(Advance(stack))
                /\ UNCHANGED << disk, roundFiles, archivesFound, decodeLog,
                                fresh, handed >>
           ELSE IF IsDirAt(disk, path)
           THEN /\ stack' = Enter(disk, stack, path)
                /\ UNCHANGED << disk, roundFiles, roundErrors, archivesFound,
                                decodeLog, fresh, handed >>
           ELSE IF ~isCompressedFile(path)
           THEN /\ stack' = Unwind(Advance(stack))
                /\ UNCHANGED << disk, roundFiles, roundErrors, archivesFound,
                                decodeLog, fresh, handed >>
           ELSE \E r \in { RoundExtract(disk, xzTool, path) } :
                \E w \in { Written(disk, r.out.disk, r.out.files) } :
                    /\ archivesFound' = TRUE
                    /\ disk' = r.out.disk
                    /\ roundFiles' = AppendFiles(roundFiles, r.out.files)
                    /\ roundErrors' = roundErrors \o r.out.errors
                    /\ stack' = WalkOn(stack, r.out.errors)
                    /\ decodeLog' = Logged(path, iteration, disk, r.out,
                                            r.removed, r.intact)
                    /\ fresh' = fresh \cup w
                    /\ handed' = IF r.removed THEN handed \ (w \cup { path })
                                 ELSE (handed \ w) \cup { path }
    /\ UNCHANGED << request, xzTool, pc, run, outputDir, extractedFiles, errors,
                    iteration, allExtractedFiles, allErrors, result, disk0,
                    returned >>

\* the return with the rounds' files dropped once the budget is spent
FinishDroppingRounds(nestedFiles, nestedErrors) ==
    /\ allExtractedFiles' = IF BudgetDiagnostic(iteration) = <<>>
                            THEN nestedFiles ELSE <<>>
    /\ allErrors' = nestedErrors \o BudgetDiagnostic(iteration)
    /\ extractedFiles' = extractedFiles \o allExtractedFiles'
    /\ errors' = errors \o allErrors'
    /\ result' = Report(extractedFiles', errors')
    /\ returned' = Append(returned, result')
    /\ pc' = "done"

\* extractNestedArchivesRecursively returns, and with it the call
Finish(nestedFiles, nestedErrors) ==
    /\ allExtractedFiles' = nestedFiles
    /\ allErrors' = nestedErrors \o BudgetDiagnostic(iteration)
    /\ extractedFiles' = extractedFiles \o allExtractedFiles'
    /\ errors' = errors \o allErrors'
    /\ result' = Report(extractedFiles', errors')
    /\ returned' = Append(returned, result')
    /\ pc' = "done"

\* no break: the loop runs until its budget is spent
BreakNever(found) == FALSE

\* a break after every round, whether it found an archive or not
BreakAfterAnyRound(found) == TRUE

\* the break of the fixpoint loop: the round found no archive
BreakAtFixpoint(found) == ~found

\* the walk of a round is over: break at a fixpoint, else back to the head
RoundDone ==
    /\ UNCHANGED bvars
    /\ pc = "round"
    /\ stack = <<>>
    /\ IF BreakAtFixpoint(archivesFound)
       THEN Finish(AppendFiles(allExtractedFiles, roundFiles),
                   allErrors \o roundErrors)
       ELSE /\ allExtractedFiles' = AppendFiles(allExtractedFiles, roundFiles)
            /\ allErrors' = allErrors \o roundErrors
            /\ pc' = "loop"
            /\ UNCHANGED << extractedFiles, errors, result, returned >>
    /\ UNCHANGED << disk, request, xzTool, run, outputDir, stack, iteration,
                    archivesFound, roundFiles, roundErrors, decodeLog, fresh,
                    handed, disk0 >>

\* the loop head: the budget is spent
LoopExit ==
    /\ UNCHANGED bvars
    /\ pc = "loop"
    /\ ~LoopGuard(iteration)
    /\ Finish(allExtractedFiles, allErrors)
    /\ UNCHANGED << disk, request, xzTool, run, outputDir, stack, iteration,
                    archivesFound, roundFiles, roundErrors, decodeLog, fresh,
                    handed, disk0 >>

Next ==
    \/ Call
    \/ FirstPassVisit
    \/ FirstPassDone
    \/ RoundStart
    \/ RoundVisit
    \/ RoundDone
    \/ LoopExit

Spec == Init /\ [][Next]_vars

\* the same calls on trees that may hold an archive holding itself, the
\* program running on as long as it has a step to take
\* number of files such a tree may hold
MaxLiveFiles == 2

LiveChoices ==
    { [rel |-> << <<"q", "zip">> >>, c |-> Quine],
      [rel |-> << <<"sub">>, <<"q", "zip">> >>, c |-> Quine],
      [rel |-> << <<"b", "zip">> >>, c |-> SelfZip],
      [rel |-> << <<"p", "zip">> >>, c |-> Pack],
      [rel |-> << <<"d", "zip">> >>, c |-> Clash],
      [rel |-> << <<"c", "zip">> >>, c |-> Text],
      [rel |-> << <<"t", "tgz">> >>, c |-> TarGz],
      [rel |-> << <<"b", "GZ">> >>, c |-> GzLarge],
      [rel |-> << <<"sub">>, <<"n", "txt">> >>, c |-> Text],
      ChainFile("inner-first", 2), ChainFile("outer-first", 2) }

RECURSIVE LiveUpTo(_)
LiveUpTo(n) ==
    IF n = 0 THEN { {} }
    ELSE LET S == LiveUpTo(n - 1)
         IN  S \cup { T \cup { f } : T \in S,
                       f \in { g \in LiveChoices : TRUE } }

LiveTrees ==
    { T \in LiveUpTo(MaxLiveFiles) : \A f, g \in T : f.rel = g.rel => f = g }
    \cup { { ChainFile(k, d) } : k \in ChainFamilies, d \in 1..MaxNest }

LiveInit ==
    /\ \E T \in LiveTrees, od \in { <<>>, Out }, rec \in BOOLEAN :
         /\ disk = Let(LAMBDA d : Plant(d, T), MkdirAll(EmptyDisk, Src).disk)
         /\ request = [source_path |-> Src, output_dir |-> od, recursive |-> rec]
    /\ xzTool = TRUE
    /\ pc = "idle"
    /\ ExtractorAtRest
    /\ disk0 = disk
    /\ bpc = "off"
    /\ extractArchives = TRUE
    /\ BundleAtRest

\* one call of the tool, from its start to its return
OneCall ==
    \/ run = 0 /\ Call
    \/ FirstPassVisit
    \/ FirstPassDone
    \/ RoundStart
    \/ RoundVisit
    \/ RoundDone
    \/ LoopExit

LiveSpec == LiveInit /\ [][OneCall]_vars /\ WF_vars(OneCall)

\* ------------------------------------------- the support-bundle analysis
\* analyzeSupportBundle of the support-bundle server: archives of the bundle
\* are decoded into a temporary directory, then the bundle and the temporary
\* directory are searched.
BundlePath == Src
\* the directory os.MkdirTemp makes
TempDir == << <<"tmp">>, <<"sba">> >>

\* archiveName + "_extracted"
Extracted(name) == [name EXCEPT ![Len(name)] = @ \o "_extracted"]
ExtractPath(path) == Join(TempDir, << Extracted(Base(path)) >>)

isArchiveFile(filePath) ==
    Ext(Base(filePath)) \in { <<"zip">>, <<"tar">>, <<"gz">>, <<"bz2">>,
                              <<"xz">>, <<"rar">>, <<"7z">> }

\* the default file_types
isMatchingFileType(filePath) ==
    Ext(Base(filePath)) \in { <<"log">>, <<"txt">>, <<"out">> }

\* os.RemoveAll
RemoveAll(d, root) == [q \in { p \in DOMAIN d : ~IsPrefix(root, p) } |-> d[q]]

Done1(ok, d) == [ok |-> ok, disk |-> d]

\* one entry of a container: directory entries are made, their error dropped
\* by the zip decoder and returned by the tar decoder; a file entry is
\* created (truncated) first and copied then, the first error is returned
BundleEntry(d, archivePath, filePath, e, dirErrors) ==
    IF e.isDir
    THEN Let(LAMBDA mk : Done1(mk.ok \/ ~dirErrors, mk.disk), MkdirAll(d, filePath))
    ELSE Let(LAMBDA mk :
                 IF ~mk.ok \/ IsDirAt(mk.disk, filePath)
                 THEN Done1(FALSE, mk.disk)
                 ELSE IF filePath = archivePath \/ e.bad
                 THEN Done1(FALSE, Put(mk.disk, filePath, FileNode(Trunc)))
                 ELSE Done1(TRUE, Put(mk.disk, filePath, FileNode(e.c))),
             MkdirAll(d, Dir(filePath)))

RECURSIVE BundleEntries(_, _, _, _, _)
BundleEntries(d, archivePath, extractPath, entries, dirErrors) ==
    IF entries = <<>> THEN Done1(TRUE, d)
    ELSE Let(LAMBDA r :
                 IF r.ok
                 THEN BundleEntries(r.disk, archivePath, extractPath,
                                    Tail(entries), dirErrors)
                 ELSE r,
             BundleEntry(d, archivePath, Join(extractPath, entries[1].name),
                         entries[1], dirErrors))

extractZipArchive(d, archivePath, extractPath) ==
    LET img == Image(d[archivePath].c)
    IN  IF img.fmt # "zip" THEN Done1(FALSE, d)
        ELSE BundleEntries(d, archivePath, extractPath, img.entries, FALSE)

\* only a path ending in .tar gets here, so the gzip wrapper is never taken
extractTarArchive(d, archivePath, extractPath) ==
    LET img == Image(d[archivePath].c)
    IN  IF img.fmt # "tar" THEN Done1(FALSE, d)
        ELSE BundleEntries(d, archivePath, extractPath, img.entries, TRUE)

\* a single-file decoder's output: extractPath itself is never made
BundleOutput(d, archivePath, extractPath, suffix, decodes) ==
    LET outputPath == OutputPath(archivePath, extractPath, suffix)
    IN  IF ~decodes THEN Done1(FALSE, d)
        ELSE IF IsDirAt(d, outputPath) \/ ~IsDirAt(d, Dir(outputPath))
        THEN Done1(FALSE, d)
        ELSE Done1(TRUE, Put(d, outputPath,
                             FileNode(Image(d[archivePath].c).entries[1].c)))

extractGzipArchive(d, archivePath, extractPath) ==
    BundleOutput(d, archivePath, extractPath, "gz",
                 Image(d[archivePath].c).fmt \in { "gz", "targz" })

extractBzip2Archive(d, tool, archivePath, extractPath) ==
    BundleOutput(d, archivePath, extractPath, "bz2",
                 tool /\ Image(d[archivePath].c).fmt \in { "bz2", "tarbz2" })

extractXzArchive(d, tool, archivePath, extractPath) ==
    BundleOutput(d, archivePath, extractPath, "xz",
                 tool /\ Image(d[archivePath].c).fmt \in { "xz", "tarxz" })

\* the dispatcher, by the last extension alone; zip is the default
extractArchive(d, tool, archivePath, extractPath) ==
    LET ext == Ext(Base(archivePath))
    IN  IF ext = <<"tar">> THEN extractTarArchive(d, archivePath, extractPath)
        ELSE IF ext = <<"gz">> THEN extractGzipArchive(d, archivePath, extractPath)
        ELSE IF ext = <<"bz2">>
        THEN extractBzip2Archive(d, tool, archivePath, extractPath)
        ELSE IF ext = <<"xz">>
        THEN extractXzArchive(d, tool, archivePath, extractPath)
        ELSE extractZipArchive(d, archivePath, extractPath)

\* number of files a bundle may hold
MaxBundleFiles == 2
\* deepest nesting of calls of extractAllCompressedFiles followed
MaxCalls == 5

BundleChoices ==
    { ChainFile("inner-first", 1), ChainFile("inner-first", 2),
      [rel |-> << <<"a", "zip">> >>, c |-> Slip3],
      [rel |-> << <<"b", "zip">> >>, c |-> SameName],
      [rel |-> << <<"c", "zip">> >>, c |-> Text],
      [rel |-> << <<"level1", "zip">> >>, c |-> Lvl(1)],
      [rel |-> << <<"x", "gz">> >>, c |-> GzSmall],
      [rel |-> << <<"k", "tar", "gz">> >>, c |-> TarGz],
      [rel |-> << <<"x", "xz">> >>, c |-> XzFile],
      [rel |-> << <<"n", "txt">> >>, c |-> Text],
      [rel |-> << <<"sub">>, <<"n", "txt">> >>, c |-> Text],
      [rel |-> << <<"sub">>, <<"b", "zip">> >>, c |-> Chain("inner-first", 1)] }

RECURSIVE BundlesUpTo(_)
BundlesUpTo(n) ==
    IF n = 0 THEN { {} }
    ELSE LET S == BundlesUpTo(n - 1)
         IN  S \cup { T \cup { f } : T \in S,
                       f \in { g \in BundleChoices : TRUE } }

BundleTrees ==
    { T \in BundlesUpTo(MaxBundleFiles) : \A f, g \in T : f.rel = g.rel => f = g }

BundleInit ==
    /\ \E T \in BundleTrees, ea \in BOOLEAN, xz \in BOOLEAN :
         /\ disk = Let(LAMBDA d : Plant(MkdirAll(d, Dir(TempDir)).disk, T),
                       MkdirAll(EmptyDisk, Src).disk)
         /\ extractArchives = ea
         /\ xzTool = xz
    /\ request = [source_path |-> Src, output_dir |-> <<>>, recursive |-> TRUE]
    /\ pc = "off"
    /\ ExtractorAtRest
    /\ disk0 = disk
    /\ bpc = "idle"
    /\ BundleAtRest

\* one call of extractAllCompressedFiles: its walk and its own map
NewCall(root) == [walk |-> StartWalk(root), seen |-> {}]
\* archiveKey: the base name and the directory
ArchiveKey(path) == << Base(path), Dir(path) >>

\* the temporary directory removed only when the analysis succeeded
CleanupAfterSuccess(d, failed) ==
    IF extractArchives /\ ~failed THEN RemoveAll(d, TempDir) ELSE d

\* the deferred os.RemoveAll(tempDir)
Cleanup(d, failed) == IF extractArchives THEN RemoveAll(d, TempDir) ELSE d

\* analyzeSupportBundle returns, and executeSupportBundleAnalyze with it: an
\* error result when it returned an error, the analysis else
Return(d, failed) ==
    /\ disk' = Cleanup(d, failed)
    /\ bresult' = IF failed THEN [kind |-> "error", files |-> <<>>]
                  ELSE [kind |-> "analysis", files |-> analysis]
    /\ bpc' = "returned"
    /\ calls' = <<>>
    /\ searchStack' = <<>>

\* the select on ctx.Done() at the head of a walk's callback
Interrupted(c) == c

\* executeSupportBundleAnalyze up to the first walk
BundleCall ==
    /\ bpc = "idle"
    /\ disk0' = disk
    /\ IF ~Exists(disk, BundlePath)
       THEN /\ bresult' = [kind |-> "error", files |-> <<>>]
            /\ bpc' = "returned"
            /\ UNCHANGED << disk, calls, searchPath, searchStack >>
       ELSE IF extractArchives
       THEN /\ disk' = MkdirAll(disk, TempDir).disk
            /\ calls' = << NewCall(BundlePath) >>
            /\ bpc' = "extract"
            /\ UNCHANGED << searchPath, searchStack, bresult >>
       ELSE /\ searchPath' = 1
            /\ searchStack' = StartWalk(BundlePath)
            /\ bpc' = "search"
            /\ UNCHANGED << disk, calls, bresult >>
    /\ UNCHANGED << evars, xzTool, extractArchives, cancelled, analysis,
                    bundleLog, lateWork >>

\* the caller's context is cancelled
Cancel ==
    /\ bpc \in { "idle", "extract", "search" }
    /\ ~cancelled
    /\ cancelled' = TRUE
    /\ UNCHANGED << evars, disk, xzTool, disk0, bpc, extractArchives, calls,
                    searchPath, searchStack, analysis, bresult, bundleLog,
                    lateWork >>

\* one entry of the walk of the innermost call of extractAllCompressedFiles
ExtractVisit ==
    /\ bpc = "extract"
    /\ calls # <<>>
    /\ calls[Len(calls)].walk # <<>>
    /\ LET n == Len(calls)
           top == calls[n]
           path == NextPath(top.walk)
           next == Unwind(Advance(top.walk))
       IN  IF ~Exists(disk, path) \/ Interrupted(cancelled)
           THEN /\ Return(disk, TRUE)
                /\ UNCHANGED << bundleLog, lateWork >>
           ELSE IF IsDirAt(disk, path)
           THEN /\ calls' = [calls EXCEPT ![n].walk = Enter(disk, top.walk, path)]
                /\ UNCHANGED << disk, bpc, searchStack, bresult, bundleLog,
                                lateWork >>
           ELSE IF ~isArchiveFile(path) \/ ArchiveKey(path) \in top.seen
           THEN /\ calls' = [calls EXCEPT ![n].walk = next]
                /\ UNCHANGED << disk, bpc, searchStack, bresult, bundleLog,
                                lateWork >>
           ELSE \E r \in { extractArchive(disk, xzTool, path, ExtractPath(path)) } :
                    /\ r.ok => Len(calls) < MaxCalls
                    /\ disk' = r.disk
                    /\ bundleLog' = Append(bundleLog,
                                           [path |-> path, c |-> disk[path].c,
                                            ok |-> r.ok, depth |-> n])
                    /\ lateWork' = lateWork + (IF cancelled THEN 1 ELSE 0)
                    /\ calls' =
                         IF r.ok
                         THEN Append([calls EXCEPT
                                        ![n].walk = next,
                                        ![n].seen = @ \cup { ArchiveKey(path) }],
                                     NewCall(ExtractPath(path)))
                         ELSE [calls EXCEPT ![n].walk = next]
                    /\ UNCHANGED << bpc, searchStack, bresult >>
    /\ UNCHANGED << evars, xzTool, disk0, extractArchives, cancelled,
                    searchPath, analysis >>

\* the walk of the innermost call is over: it returns nil to its caller's
\* callback, the outermost to analyzeSupportBundle, which starts the search
ExtractReturn ==
    /\ bpc = "extract"
    /\ calls # <<>>
    /\ calls[Len(calls)].walk = <<>>
    /\ calls' = SubSeq(calls, 1, Len(calls) - 1)
    /\ IF Len(calls) = 1
       THEN /\ bpc' = "search"
            /\ searchPath' = 1
            /\ searchStack' = StartWalk(BundlePath)
       ELSE UNCHANGED << bpc, searchPath, searchStack >>
    /\ UNCHANGED << evars, disk, xzTool, disk0, extractArchives, cancelled,
                    analysis, bresult, bundleLog, lateWork >>

\* processFile: a text file is searched and, holding a match, recorded; a
\* file that cannot be read or reads as empty is skipped
processFile(d, path, found) ==
    IF d[path].c = Text THEN Append(found, path) ELSE found

\* one entry of a walk of the second pass
SearchVisit ==
    /\ bpc = "search"
    /\ searchStack # <<>>
    /\ LET path == NextPath(searchStack)
       IN  IF ~Exists(disk, path) \/ Interrupted(cancelled)
           THEN /\ Return(disk, TRUE)
                /\ UNCHANGED << analysis, lateWork >>
           ELSE IF IsDirAt(disk, path)
           THEN /\ searchStack' = Enter(disk, searchStack, path)
                /\ UNCHANGED << disk, bpc, calls, bresult, analysis, lateWork >>
           ELSE IF \/ ~isMatchingFileType(path)
                   \/ (extractArchives /\ isArchiveFile(path))
           THEN /\ searchStack' = Unwind(Advance(searchStack))
                /\ UNCHANGED << disk, bpc, calls, bresult, analysis, lateWork >>
           ELSE /\ analysis' = processFile(disk, path, analysis)
                /\ lateWork' = lateWork + (IF cancelled THEN 1 ELSE 0)
                /\ searchStack' = Unwind(Advance(searchStack))
                /\ UNCHANGED << disk, bpc, calls, bresult >>
    /\ UNCHANGED << evars, xzTool, disk0, extractArchives, cancelled,
                    searchPath, bundleLog >>

\* a walk of the second pass is over: the next search path, or the return
SearchNext ==
    /\ bpc = "search"
    /\ searchStack = <<>>
    /\ IF extractArchives /\ searchPath = 1
       THEN /\ searchPath' = 2
            /\ searchStack' = StartWalk(TempDir)
            /\ UNCHANGED << disk, bpc, calls, bresult, analysis >>
       ELSE /\ Return(disk, FALSE)
            /\ UNCHANGED << searchPath, analysis >>
    /\ UNCHANGED << evars, xzTool, disk0, extractArchives, cancelled,
                    bundleLog, lateWork >>

BundleNext ==
    \/ BundleCall
    \/ Cancel
    \/ ExtractVisit
    \/ ExtractReturn
    \/ SearchVisit
    \/ SearchNext

BundleSpec == BundleInit /\ [][BundleNext]_vars

\* ================================================================== claims
Count(s, x) == Cardinality({ i \in DOMAIN s : s[i] = x })
FilesOf(d) == { p \in DOMAIN d : ~d[p].isDir }
ArchivesUnder(d, root) ==
    { p \in FilesOf(d) : IsPrefix(root, p) /\ isCompressedFile(p) }
Done == pc = "done"
Defaulted == request.output_dir = <<>>

\* the call was given a tree holding one file and nothing else
SoleInput(rel, c) ==
    /\ run = 1
    /\ FilesOf(disk0) = { Src \o rel }
    /\ disk0[Src \o rel].c = c
    /\ DOMAIN disk0 \ FilesOf(disk0) = { <<>>, Src }

\* a chain of n nested archives, every level under its own name
ChainInput(n) ==
    \E k \in ChainFamilies : SoleInput(<< ChainName(k, n) >>, Chain(k, n))

\* the innermost archive of a chain
Innermost(c) == c.k \in ChainFamilies /\ c.d = 1
InnermostDecoded == \E i \in DOMAIN decodeLog : Innermost(decodeLog[i].c)
InnermostOnDisk == \E p \in FilesOf(disk) : Innermost(disk[p].c)

\* C1: a fixpoint round deletes an archive only if its decode reported no
\* error, and an archive whose decode reported an error is still on disk,
\* unchanged, when the call returns.
C1_RemovedOnlyAfterSuccess ==
    /\ \A i \in DOMAIN decodeLog :
         decodeLog[i].removed => decodeLog[i].nerr = 0
    /\ Done =>
         \A i \in DOMAIN decodeLog :
           (decodeLog[i].round >= 1 /\ decodeLog[i].nerr > 0) =>
             /\ IsFileAt(disk, decodeLog[i].path)
             /\ disk[decodeLog[i].path].c = decodeLog[i].c

\* C2 as claimed: when the report is returned, every path in
\* extracted_files names a file that exists on disk.
C2_ExtractedFilesExist ==
    Done => \A i \in DOMAIN result.extracted_files :
              IsFileAt(disk, result.extracted_files[i])

\* C2 as amended: when the report is returned, every path in
\* extracted_files names a file that exists on disk, except a path that is
\* itself an archive which a fixpoint round of this call decoded and removed.
C2_ExtractedFilesExistUnlessConsumed ==
    Done => \A i \in DOMAIN result.extracted_files :
              \/ IsFileAt(disk, result.extracted_files[i])
              \/ \E j \in DOMAIN decodeLog :
                   /\ decodeLog[j].removed
                   /\ decodeLog[j].round >= 1
                   /\ decodeLog[j].path = result.extracted_files[i]
                   /\ isCompressedFile(result.extracted_files[i])

\* a recursive run has returned a report that lists both a file still on
\* disk and an extracted archive a later round consumed
C2_Witness ==
    /\ Done
    /\ request.recursive
    /\ \E i \in DOMAIN result.extracted_files :
         IsFileAt(disk, result.extracted_files[i])
    /\ \E i \in DOMAIN result.extracted_files :
         ~Exists(disk, result.extracted_files[i])

\* C3: the fixpoint loop runs at most maxIterations rounds in one call: the
\* counter never exceeds maxIterations and no archive is decoded in a later
\* round.
C3_IterationBounded ==
    /\ iteration <= maxIterations
    /\ \A i \in DOMAIN decodeLog : decodeLog[i].round <= maxIterations

\* the last permitted round is decoding an archive
C3_Witness ==
    /\ pc = "round"
    /\ iteration = maxIterations
    /\ \E i \in DOMAIN decodeLog : decodeLog[i].round = maxIterations

\* C4: the budget diagnostic is in errors only when the loop stopped with
\* the budget spent while an archive file still remains under the output
\* tree.
C4_DiagnosticOnlyWithArchivesLeft ==
    (Done /\ Count(result.errors, BudgetError) > 0) =>
        ArchivesUnder(disk, outputDir) # {}

ChainTexts(root) ==
    { root \o << <<"t", "txt">> >>, root \o << <<"u", "txt">> >> }
FixtureTexts(root) ==
    { root \o << <<"level1", "txt">> >>, root \o << <<"data1", "txt">> >>,
      root \o << <<"level2">>, <<"level2", "txt">> >>,
      root \o << <<"level2">>, <<"data2", "txt">> >>,
      root \o << <<"level2">>, <<"level3">>, <<"level3", "txt">> >>,
      root \o << <<"level2">>, <<"level3">>, <<"data3", "txt">> >> }

\* C6: a recursive call on a chain of N well-formed nested zip archives, N
\* within the iteration budget, ends with every text file on disk, no
\* archive left under the output tree and an empty errors list.
C6_ChainWithinBudgetClean ==
    /\ (Done /\ request.recursive
          /\ \E n \in 1..maxIterations : ChainInput(n)) =>
        /\ \A p \in ChainTexts(outputDir) : IsFileAt(disk, p)
        /\ ArchivesUnder(disk, outputDir) = {}
        /\ result.errors = <<>>
    /\ (Done /\ request.recursive
          /\ SoleInput(<< <<"level1", "zip">> >>, Lvl(1))) =>
        /\ \A p \in FixtureTexts(outputDir) : IsFileAt(disk, p)
        /\ ArchivesUnder(disk, outputDir) = {}
        /\ result.errors = <<>>

\* C7 as claimed: a second recursive call in a row on the same source_path,
\* output_dir defaulted, returns no extracted file and no error and changes
\* no file.
C7_SecondRunEmpty ==
    (Done /\ run = 2 /\ request.recursive /\ Defaulted) =>
        /\ result.extracted_files = <<>>
        /\ result.errors = <<>>
        /\ disk = disk0

\* C7 as amended: the same, provided the first call returned without the
\* budget diagnostic (it stopped at a fixpoint before the budget was spent).
C7_SecondRunEmptyAfterFixpoint ==
    (Done /\ run = 2 /\ request.recursive /\ Defaulted
       /\ Count(returned[1].errors, BudgetError) = 0) =>
        /\ result.extracted_files = <<>>
        /\ result.errors = <<>>
        /\ disk = disk0

\* the second call has returned after a first call that extracted files
\* and met a decode error, within the budget
C7_Witness ==
    /\ Done
    /\ run = 2
    /\ request.recursive
    /\ Defaulted
    /\ Count(returned[1].errors, BudgetError) = 0
    /\ returned[1].extracted_files # <<>>
    /\ returned[1].errors # <<>>

\* C8: with recursive=false only archives directly inside source_path are
\* decoded, and no archive that a decode of this call wrote is decoded.
C8_NonRecursiveTopLevelOnly ==
    ~request.recursive =>
        \A i \in DOMAIN decodeLog :
          /\ Dir(decodeLog[i].path) = request.source_path
          /\ ~decodeLog[i].fresh

\* the errors of the decodes of one archive path
ErrorsOf(p) ==
    { i \in DOMAIN decodeLog : decodeLog[i].path = p /\ decodeLog[i].nerr > 0 }
RECURSIVE SumErr(_)
SumErr(I) ==
    IF I = {} THEN 0
    ELSE Let(LAMBDA i : decodeLog[i].nerr + SumErr(I \ { i }),
             CHOOSE i \in I : TRUE)

\* C9: in any run every archive whose decode fails contributes exactly one
\* entry to errors, every well-formed archive is decoded with its contents
\* listed, and the call returns a normal report.
C9_OneErrorPerFailedArchive ==
    Done =>
        /\ result.kind = "report"
        /\ \A i \in DOMAIN decodeLog :
             decodeLog[i].nerr > 0 => SumErr(ErrorsOf(decodeLog[i].path)) = 1
        /\ \A p \in FilesOf(disk0) :
             (isCompressedFile(p) /\ Image(disk0[p].c).fmt = "zip") =>
               \E i \in DOMAIN decodeLog :
                 /\ decodeLog[i].path = p
                 /\ Range(decodeLog[i].files) \subseteq Range(result.extracted_files)

\* C10: within one run no archive file is handed to a decoder more than once.
C10_NoArchiveDecodedTwice ==
    \A i \in DOMAIN decodeLog : ~decodeLog[i].again

\* the call has started and not returned an error result
Running == pc \in { "first", "loop", "round", "done" }
\* source_path names nothing (the empty path names nothing either)
SourceMissing == request.source_path = <<>> \/ ~Exists(disk0, request.source_path)
\* the output directory, after defaulting, cannot be made
OutputBlocked ==
    ~MkdirAll(disk0, IF Defaulted THEN request.source_path
                     ELSE request.output_dir).ok

ErrorsSoFar ==
    Range(errors) \cup Range(roundErrors) \cup Range(allErrors)
    \cup Range(result.errors)

\* the paths of the one-word compressed-tar suffixes
ShortTarSuffixes == { <<"tgz">>, <<"tbz2">>, <<"txz">> }

\* C12: every path the classifier accepts is dispatched to the decoder of its
\* kind: it is never reported as an unsupported format, and a .tgz, .tbz2 or
\* .txz file is decoded as a compressed tar container, its entries extracted
\* as those of a .tar.gz are.
C12_AcceptedIsDispatched ==
    /\ \A e \in ErrorsSoFar :
         e.kind = "Unsupported" => ~isCompressedFile(e.path)
    /\ \A i \in DOMAIN decodeLog :
         (/\ Ext(Base(decodeLog[i].path)) \in ShortTarSuffixes
          /\ decodeLog[i].c = TarGz
          /\ decodeLog[i].round = 0) =>
            /\ decodeLog[i].nerr = 0
            /\ Len(decodeLog[i].files) = Len(Image(TarGz).entries)

\* the destination directory a logged decode was given
TargetOf(l) ==
    IF l.round = 0
    THEN Join(outputDir, Dir(Rel(request.source_path, l.path)))
    ELSE Dir(l.path)

\* C13: every file a zip or tar decode creates lies inside the destination
\* directory the decoder was given, whatever the entry names ('..'
\* components and a leading separator included).
C13_EntriesStayInsideTarget ==
    \A i \in DOMAIN decodeLog :
      \A j \in DOMAIN decodeLog[i].files :
        IsPrefix(TargetOf(decodeLog[i]), decodeLog[i].files[j])

\* C14: a decode never deletes, truncates or overwrites the archive it is
\* decoding, in place or not, whatever the entry names and the derived
\* output name.
C14_DecodeKeepsItsArchive ==
    \A i \in DOMAIN decodeLog : decodeLog[i].intact

\* a logged decode that had to run the xz command and could not: the tool is
\* missing, or it exits non-zero on bytes that are not an xz stream
XzFailed(l) ==
    /\ Ext(Base(l.path)) = <<"xz">>
    /\ ~(xzTool /\ Image(l.c).fmt \in { "xz", "tarxz" })

\* the walk of the first pass came to the archive: it was handed to its
\* decoder, or its target directory could not be made and that was reported
Attended(p) ==
    \/ \E i \in DOMAIN decodeLog :
           decodeLog[i].path = p /\ decodeLog[i].round = 0
    \/ Err("CreateTarget", Join(outputDir, Dir(Rel(request.source_path, p))))
           \in Range(result.errors)

\* C15: when the xz command is missing or exits non-zero, the decode of that
\* archive reports one error and lists no file, the run goes on to every other
\* archive of the tree, and the call returns a normal report.
C15_XzFailureIsLocal ==
    /\ \A i \in DOMAIN decodeLog :
         XzFailed(decodeLog[i]) =>
           /\ decodeLog[i].nerr = 1
           /\ decodeLog[i].files = <<>>
           /\ decodeLog[i].intact
    /\ (Done /\ \E i \in DOMAIN decodeLog : XzFailed(decodeLog[i])) =>
         /\ result.kind = "report"
         /\ \A p \in FilesOf(disk0) :
              (IsPrefix(request.source_path, p) /\ isCompressedFile(p)) =>
                Attended(p)

\* a call has returned a report after an xz decode failed for want of the
\* tool and another archive of the tree was decoded with files listed
C15_Witness ==
    /\ Done
    /\ ~xzTool
    /\ result.kind = "report"
    /\ \E i, j \in DOMAIN decodeLog :
         /\ XzFailed(decodeLog[i])
         /\ decodeLog[j].path # decodeLog[i].path
         /\ decodeLog[j].files # <<>>

\* C16: in every report returned, total_files is the length of
\* extracted_files, and message is the 'completed with ... errors' form
\* exactly when errors is non-empty and the 'Successfully extracted' form
\* exactly when it is empty.
C16_ReportFieldsAgree ==
    \A i \in DOMAIN returned :
      /\ returned[i].kind = "report"
      /\ returned[i].total_files = Len(returned[i].extracted_files)
      /\ returned[i].message = "completed with errors" <=> returned[i].errors # <<>>
      /\ returned[i].message = "success" <=> returned[i].errors = <<>>

\* two reports have been returned, of both forms, the first listing a path
\* more than once
C16_Witness ==
    /\ Len(returned) = 2
    /\ returned[1].message = "completed with errors"
    /\ returned[2].message = "success"
    /\ Len(returned[1].extracted_files)
         > Cardinality(Range(returned[1].extracted_files))

\* the files the logged decodes listed, in the order of the decodes
RECURSIVE FilesLogged(_)
FilesLogged(log) ==
    IF log = <<>> THEN <<>>
    ELSE Let(LAMBDA rest : log[1].files \o rest, FilesLogged(Tail(log)))

\* C17: errors holds at most one budget entry per call, and when it is
\* there extracted_files still holds every path the first pass and the
\* rounds extracted, in order.
C17_BudgetEntryOnceNothingLost ==
    /\ Count(errors, BudgetError) <= 1
    /\ Count(allErrors, BudgetError) <= 1
    /\ Count(result.errors, BudgetError) <= 1
    /\ (Done /\ Count(result.errors, BudgetError) = 1) =>
         result.extracted_files = FilesLogged(decodeLog)

\* a call that spent its budget over more rounds than one has returned
C17_Witness ==
    /\ Done
    /\ Count(result.errors, BudgetError) = 1
    /\ iteration = maxIterations
    /\ Len(decodeLog) > maxIterations
    /\ result.extracted_files # <<>>

\* ---------------------------------------------------------------- C18 .. C20
\* paths of the temporary extraction directory present on the disk
UnderTemp(d) == { p \in DOMAIN d : IsPrefix(TempDir, p) }
\* an archive of the bundle was decoded into the temporary directory
ExtractedIntoTemp ==
    \E i \in 1..Len(bundleLog) :
        bundleLog[i].ok /\ IsPrefix(TempDir, ExtractPath(bundleLog[i].path))

C19_BundleIsOnlyRead ==
    /\ \A p \in DOMAIN disk0 :
           IsPrefix(BundlePath, p) => (p \in DOMAIN disk /\ disk[p] = disk0[p])
    /\ \A p \in DOMAIN disk \ DOMAIN disk0 : IsPrefix(TempDir, p)

\* C20: once cancellation is raised during a walk no further file is decoded
\* or searched, and the caller receives what the analysis had collected by
\* then instead of losing it.
C20_CancelKeepsCollected ==
    /\ lateWork = 0
    /\ (bpc = "returned" /\ cancelled /\ analysis # <<>>)
           => (bresult.kind = "analysis" /\ bresult.files = analysis)

\* ---------------------------------------------------------------- C21 .. C30
\* the paths a walk has listed and not come to yet
Pending(st) ==
    UNION { { st[i].dir \o << st[i].names[j] >> : j \in 1..Len(st[i].names) } :
            i \in 1..Len(st) }

ContainerDecode(l) ==
    /\ Image(l.c).fmt \in { "zip", "tar", "targz", "tarxz" }
    /\ \/ Ext(Base(l.path)) \in { <<"zip">>, <<"tar">> }
       \/ DoubleExt(Base(l.path)) \o Ext(Base(l.path)) \in DoubleSuffixes
\* the path the j-th entry of the archive of a logged decode is written to
EntryPath(l, j) == Join(TargetOf(l), Image(l.c).entries[j].name)

\* C22: when an entry of a zip or tar archive cannot be opened or written,
\* the decode of that archive stops there: no entry stored after an entry
\* that failed is added to the extracted list.
C22_DecodeStopsAtFirstFailure ==
    \A i \in DOMAIN decodeLog :
      ContainerDecode(decodeLog[i]) =>
        \A j \in DOMAIN Image(decodeLog[i].c).entries :
          EntryPath(decodeLog[i], j) \in Range(decodeLog[i].files) =>
            \A k \in 1..(j - 1) :
              EntryPath(decodeLog[i], k) \in Range(decodeLog[i].files)

\* the path matches none of the dispatcher's decoder cases
NoDecoderCase(path) ==
    LET ext == Ext(Base(path))
        doubleExt == DoubleExt(Base(path))
    IN  /\ ext \notin { <<"zip">>, <<"tar">>, <<"gz">>, <<"bz2">>, <<"xz">> }
        /\ doubleExt \o ext \notin DoubleSuffixes

\* C23: a path that matches none of the dispatcher's decoder cases is given
\* a zip decode: its decode reports what a zip decode of the file reports,
\* and no 'unsupported' error is ever reported.
C23_FallbackIsZipDecode ==
    /\ \A e \in ErrorsSoFar : e.kind # "Unsupported"
    /\ \A i \in DOMAIN decodeLog :
         NoDecoderCase(decodeLog[i].path) =>
           (decodeLog[i].nerr = 0 <=> Image(decodeLog[i].c).fmt = "zip")

\* a logged decode of a standalone single-file archive: .gz, .bz2 or .xz in
\* any letter case, not behind .tar
StandaloneDecode(l) ==
    /\ Ext(Base(l.path)) \in { <<"gz">>, <<"bz2">>, <<"xz">> }
    /\ DoubleExt(Base(l.path)) # <<"tar">>
\* a name less its last piece, the suffix in whatever case it is written
Stripped(name) == SubSeq(name, 1, Len(name) - 1)

\* C24: a successful decode of a standalone .gz, .bz2 or .xz archive lists
\* exactly one file, in the destination directory, named as the archive less
\* its compressor suffix, and so under another name than the archive's.
C24_OneOutputNamedByStripping ==
    \A i \in DOMAIN decodeLog :
      (StandaloneDecode(decodeLog[i]) /\ decodeLog[i].nerr = 0) =>
        /\ decodeLog[i].files =
             << Join(TargetOf(decodeLog[i]),
                     << Stripped(Base(decodeLog[i].path)) >>) >>
        /\ Base(decodeLog[i].files[1]) # Base(decodeLog[i].path)

\* the list of extracted files as the call holds it at this point
FilesSoFar ==
    IF Done THEN result.extracted_files
    ELSE IF pc = "round"
    THEN extractedFiles \o allExtractedFiles \o roundFiles
    ELSE extractedFiles \o allExtractedFiles

\* C25: extracted_files is in discovery order: it is the files of the decodes
\* in the order the walks made them, the first pass's before the rounds',
\* every round's before the next round's, with nothing reordered.
C25_ListInDiscoveryOrder ==
    Running =>
      /\ FilesSoFar = FilesLogged(decodeLog)
      /\ \A i, j \in DOMAIN decodeLog :
           i < j => decodeLog[i].round <= decodeLog[j].round

\* a report whose list holds files of the first pass, of a first and of a
\* second round, one round having decoded two archives with files each
C25_Witness ==
    /\ Done
    /\ result.kind = "report"
    /\ \E i, j, k \in DOMAIN decodeLog :
         /\ decodeLog[i].round = 0 /\ decodeLog[i].files # <<>>
         /\ decodeLog[j].round = 1 /\ decodeLog[j].files # <<>>
         /\ decodeLog[k].round = 2 /\ decodeLog[k].files # <<>>
    /\ \E i, j \in DOMAIN decodeLog :
         /\ i < j
         /\ decodeLog[i].round = decodeLog[j].round
         /\ decodeLog[i].round > 0
         /\ decodeLog[i].files # <<>>
         /\ decodeLog[j].files # <<>>
         /\ decodeLog[i].files # decodeLog[j].files

\* the decodes a round has made
DecodesOf(k) == { i \in DOMAIN decodeLog : decodeLog[i].round = k }

\* C26: the loop stops at the end of the first round that finds no archive:
\* no round follows a round without a decode, and a recursive call that has
\* returned without the budget diagnostic made no decode in its last round
\* and leaves no file with an archive suffix under the output tree.
C26_StopsAtFirstEmptyRound ==
    (request.recursive /\ pc \in { "loop", "round", "done" }) =>
      /\ \A k \in 1..(iteration - 1) : DecodesOf(k) # {}
      /\ (Done /\ BudgetError \notin Range(result.errors)) =>
           /\ iteration >= 1
           /\ DecodesOf(iteration) = {}
           /\ ArchivesUnder(disk, outputDir) = {}

\* a recursive call has returned without the diagnostic after two rounds
\* with decodes and a third without
C26_Witness ==
    /\ Done
    /\ request.recursive
    /\ result.kind = "report"
    /\ BudgetError \notin Range(result.errors)
    /\ iteration = 3
    /\ DecodesOf(1) # {}
    /\ DecodesOf(2) # {}
    /\ ArchivesUnder(disk0, request.source_path) # {}

\* the call is under way
Started == pc \in { "first", "loop", "round" }
\* how a recursive call that has returned came to its end
EndedAtFixpoint == iteration >= 1 /\ DecodesOf(iteration) = {}
EndedOnBudget ==
    iteration = maxIterations /\ BudgetError \in Range(result.errors)

\* C27: every call on a finite tree terminates, an archive that holds a copy
\* of itself included: the loop's counter never passes the budget, a call
\* under way always comes to its return, and it returns with recursion
\* disabled, at a fixpoint or with the budget diagnostic.
C27_CallTerminates ==
    /\ [](iteration <= maxIterations)
    /\ [](Done => (~request.recursive \/ EndedAtFixpoint \/ EndedOnBudget))
    /\ (Started ~> Done)

\* a recursive call on an archive that holds a copy of itself has returned
C27_Witness ==
    /\ Done
    /\ request.recursive
    /\ \E p \in FilesOf(disk0) : disk0[p].c = Quine
    /\ \E i \in DOMAIN decodeLog :
         decodeLog[i].c = Quine /\ decodeLog[i].round = maxIterations

\* the archives handed to extractArchive so far
ArchivesLogged == { bundleLog[i].path : i \in 1..Len(bundleLog) }

\* C28: the recursive extraction of a bundle terminates, a nested archive
\* with the base name of its container included: every nested call of
\* extractAllCompressedFiles is made for an archive not extracted before, so
\* the calls nest no deeper than the archives extracted are many, and no
\* archive file is extracted a second time.
C28_ExtractionRecursionEnds ==
    /\ Len(calls) <= 1 + Cardinality(ArchivesLogged)
    /\ \A i, j \in 1..Len(bundleLog) :
         (i < j /\ bundleLog[i].ok /\ bundleLog[j].ok) =>
           bundleLog[i].path # bundleLog[j].path

\* C29: no path appears twice in the extracted_files of a report, and
\* total_files is the number of distinct files extracted, a recursive call
\* with output_dir equal to source_path included.
C29_NoPathListedTwice ==
    (Done /\ result.kind = "report") =>
      /\ \A i, j \in DOMAIN result.extracted_files :
           i # j => result.extracted_files[i] # result.extracted_files[j]
      /\ result.total_files = Cardinality(Range(result.extracted_files))

\* output_dir is given and neither inside source_path nor around it
DisjointOutput ==
    /\ request.output_dir # <<>>
    /\ request.source_path # <<>>
    /\ ~IsPrefix(request.source_path, request.output_dir)
    /\ ~IsPrefix(request.output_dir, request.source_path)
\* the paths whose node differs from what it was when the call began
Changed == { p \in DOMAIN disk \cup DOMAIN disk0 :
               p \notin DOMAIN disk \/ p \notin DOMAIN disk0 \/ disk[p] # disk0[p] }

\* C30: the first pass deletes no file, and a call whose output_dir is
\* disjoint from source_path leaves everything under source_path as it was:
\* whatever it creates, changes or deletes is under output_dir.
C30_SourceKeptOutputOnly ==
    /\ (pc = "first") => FilesOf(disk0) \subseteq FilesOf(disk)
    /\ (Running /\ DisjointOutput) =>
         \A p \in Changed :
           /\ ~IsPrefix(request.source_path, p)
           /\ IsPrefix(request.output_dir, p)


====
